---- MODULE Spec2Model ----
(***************************************************************************)
(* Model of src/sum_and_density_of_states.py: the class state_count, its   *)
(* constructor and its five methods zpe, cl_count, MR_count, WR_count and  *)
(* BS_count.                                                               *)
(*                                                                         *)
(* Numbers.  Python / numpy floats are modelled as exact rationals         *)
(* [n |-> numerator, d |-> denominator] in lowest terms with d >= 0.  The  *)
(* IEEE special values numpy produces on a division by zero are the        *)
(* rationals with d = 0: <<1,0>> is +inf, <<-1,0>> is -inf, <<0,0>> is nan.*)
(* Values that need exp or a fractional power (the two regular branches of *)
(* WR_count) are kept as symbolic terms.                                   *)
(***************************************************************************)
EXTENDS Integers, Sequences, FiniteSets, TLC

VARIABLES
    E,        \* self.E
    freqs,    \* self.freqs
    hbar,     \* self.hbar
    ref,      \* self.ref
    vibs,     \* self.vibs
    sum,      \* self.sum
    n_osc,    \* self.n_osc
    args,     \* the arguments of the constructor call
    op,       \* the last call made on the object
    Egrain,   \* the argument of the last BS_count call (0 when op is another call)
    locals,   \* the local variables of the last call when it ended
    printed,  \* whether the last call wrote the warning to stdout
    ret       \* how the last call ended: a returned value or a raised exception

vars == <<E, freqs, hbar, ref, vibs, sum, n_osc, args, op, Egrain, locals, printed, ret>>

fields == <<E, freqs, hbar, ref, vibs, sum, n_osc>>

-----------------------------------------------------------------------------
(* Bounds of the model and the sets the inputs are drawn from.              *)

\* Largest number of raw frequencies handed to the constructor.
MaxFreqs == 7

\* len(T): np.zeros(100000) in the source, scaled down.
TableLen == 6

\* Frequencies: a negative (imaginary) one, zero, two small ones and a large one.
FreqVals == {-1, 0, 1, 2, 200}

\* Total energies.
EVals == {-1, 0, 1, 5, 7, 9}

\* Grain widths.
EgrainVals == {1, 2}

RefVals == {"zpe", "bot"}

-----------------------------------------------------------------------------
(* Rational arithmetic with the IEEE specials.                              *)

Abs(x) == IF x < 0 THEN -x ELSE x

Sign(x) == IF x < 0 THEN -1 ELSE IF x = 0 THEN 0 ELSE 1

RECURSIVE GCD(_, _)
GCD(a, b) == IF b = 0 THEN a ELSE GCD(b, a % b)

\* The float with value n/d.
Rat(n, d) ==
    IF d = 0 THEN [n |-> Sign(n), d |-> 0]
    ELSE LET g == GCD(Abs(n), Abs(d))
             s == Sign(d)
         IN [n |-> s * (n \div g), d |-> s * (d \div g)]

Int2Rat(i) == [n |-> i, d |-> 1]

NaN == [n |-> 0, d |-> 0]

IsNaN(x) == x.d = 0 /\ x.n = 0

RMul(x, y) ==
    LET g1 == GCD(Abs(x.n), y.d)
        g2 == GCD(Abs(y.n), x.d)
        h1 == IF g1 = 0 THEN 1 ELSE g1
        h2 == IF g2 = 0 THEN 1 ELSE g2
    IN Rat((x.n \div h1) * (y.n \div h2), (x.d \div h2) * (y.d \div h1))

RNeg(x) == [n |-> -x.n, d |-> x.d]

\* 1/x; 1/0 is +inf, 1/inf is 0.
RInv(x) == Rat(x.d, x.n)

RDiv(x, y) == RMul(x, RInv(y))

RAdd(x, y) ==
    IF x.d = 0 /\ y.d = 0
    THEN IF x.n = y.n THEN x ELSE NaN
    ELSE Rat(x.n * y.d + y.n * x.d, x.d * y.d)

RSub(x, y) == RAdd(x, RNeg(y))

\* x ** k for an integer k >= 0, by repeated multiplication; x ** 0 is 1.
RECURSIVE RPow(_, _)
RPow(x, k) == IF k = 0 THEN Int2Rat(1) ELSE RMul(x, RPow(x, k - 1))

\* Comparisons of floats: every comparison with nan is false.
RLess(x, y) ==
    /\ ~IsNaN(x)
    /\ ~IsNaN(y)
    /\ IF x.d = 0 \/ y.d = 0
       THEN IF x.d = 0 /\ y.d = 0 THEN x.n < y.n
            ELSE IF x.d = 0 THEN x.n < 0 ELSE y.n > 0
       ELSE x.n * y.d < y.n * x.d

RLeq(x, y) == ~IsNaN(x) /\ ~IsNaN(y) /\ ~RLess(y, x)

RECURSIVE Factorial(_)
Factorial(k) == IF k = 0 THEN 1 ELSE k * Factorial(k - 1)

\* round() of Python 3 on the finite float n/d: to the nearest integer, a tie to
\* the even one.
Round(x) ==
    LET fl  == IF x.n >= 0 THEN x.n \div x.d ELSE -((-x.n + x.d - 1) \div x.d)
        rem == x.n - fl * x.d
    IN IF 2 * rem < x.d THEN fl
       ELSE IF 2 * rem > x.d THEN fl + 1
       ELSE IF fl % 2 = 0 THEN fl ELSE fl + 1

-----------------------------------------------------------------------------
(* numpy arrays: sequences, indexed from 0 as in Python.                    *)

RECURSIVE Insert(_, _)
Insert(x, s) ==
    IF s = <<>> THEN <<x>>
    ELSE IF x <= Head(s) THEN <<x>> \o s
    ELSE <<Head(s)>> \o Insert(x, Tail(s))

\* A plausible slip: the array taken as it comes.
Unsorted(s) == s

\* np.sort: ascending.
RECURSIVE Sort(_)
Sort(s) == IF s = <<>> THEN <<>> ELSE Insert(Head(s), Sort(Tail(s)))

\* a[k:], for k >= 0: past the end it is empty.
SliceFrom(a, k) == IF k >= Len(a) THEN <<>> ELSE SubSeq(a, k + 1, Len(a))

RECURSIVE SeqSum(_)
SeqSum(s) == IF s = <<>> THEN 0 ELSE Head(s) + SeqSum(Tail(s))

RECURSIVE SeqProd(_)
SeqProd(s) == IF s = <<>> THEN 1 ELSE Head(s) * SeqProd(Tail(s))

RECURSIVE SeqSumSq(_)
SeqSumSq(s) == IF s = <<>> THEN 0 ELSE Head(s) * Head(s) + SeqSumSq(Tail(s))

Returned(v) == [outcome |-> "returned", value |-> v]

Raised(e) == [outcome |-> "raised", exc |-> e]

None == [outcome |-> "none"]

-----------------------------------------------------------------------------
(* The frequency arrays handed to the constructor.                          *)

RECURSIVE Repeat(_, _)
Repeat(x, k) == IF k = 0 THEN <<>> ELSE <<x>> \o Repeat(x, k - 1)

RECURSIVE Ascending(_, _)
Ascending(c, S) ==
    IF S = {} THEN <<>>
    ELSE LET m == CHOOSE x \in S : \A y \in S : x <= y
         IN Repeat(m, c[m]) \o Ascending(c, S \ {m})

RECURSIVE Reverse(_)
Reverse(s) == IF s = <<>> THEN <<>> ELSE Reverse(Tail(s)) \o <<Head(s)>>

RECURSIVE CountSum(_, _)
CountSum(c, S) ==
    IF S = {} THEN 0
    ELSE LET m == CHOOSE x \in S : TRUE IN c[m] + CountSum(c, S \ {m})

\* Every multiset of at most MaxFreqs values of FreqVals, as the count of each value.
Multisets == { c \in [FreqVals -> 0..MaxFreqs] : CountSum(c, FreqVals) <= MaxFreqs }

\* Every such multiset, in ascending and in descending order.
FreqInputs ==
    { Ascending(c, FreqVals) : c \in Multisets }
        \cup { Reverse(Ascending(c, FreqVals)) : c \in Multisets }

\* The inputs that look like a molecule's: at least four modes of zero frequency (the
\* rotations and translations) and at most one imaginary mode, in descending order.
Molecules ==
    { Reverse(Ascending(c, FreqVals)) : c \in { c \in Multisets : c[0] >= 4 /\ c[-1] <= 1 } }

-----------------------------------------------------------------------------
(* state_count.__init__                                                     *)

\* The number of leading modes dropped for the geometry.
Leading(linear) == IF linear THEN 5 ELSE 6

Init ==
    /\ E = 0 /\ freqs = <<>> /\ hbar = 0 /\ ref = "" /\ vibs = <<>> /\ sum = 0 /\ n_osc = 0
    /\ args = [freqs |-> <<>>, TS |-> FALSE, linear |-> FALSE]
    /\ op = "none"
    /\ Egrain = 0
    /\ locals = None
    /\ printed = FALSE
    /\ ret = None

\* state_count(E, freqs, TS, linear, ref)
Construct(e, f, ts, lin, r) ==
    LET sorted == Sort(f)
        kept   == IF ts THEN SliceFrom(sorted, 1) ELSE sorted
        v      == SliceFrom(kept, Leading(lin))
    IN /\ op' = "__init__"
       /\ args' = [freqs |-> f, TS |-> ts, linear |-> lin]
       /\ E' = e
       /\ hbar' = 1
       /\ ref' = r
       /\ Egrain' = 0
       /\ locals' = None
       /\ printed' = FALSE
       /\ IF ts /\ sorted = <<>>
          THEN \* self.freqs[0] of an empty array
               /\ ret' = Raised("IndexError")
               /\ freqs' = sorted
               /\ UNCHANGED <<vibs, sum, n_osc>>
          ELSE IF ts /\ ~(sorted[1] < 0)
          THEN /\ ret' = Raised("AssertionError")
               /\ freqs' = sorted
               /\ UNCHANGED <<vibs, sum, n_osc>>
          ELSE /\ ret' = Returned("self")
               /\ freqs' = kept
               /\ vibs' = v
               /\ sum' = SeqSum(v)
               /\ n_osc' = Len(v)

\* A molecule is constructed.
New ==
    /\ op = "none"
    /\ \E e \in EVals, f \in Molecules, ts \in BOOLEAN, lin \in BOOLEAN, r \in RefVals :
           Construct(e, f, ts, lin, r)

\* The constructor is called on any frequency array.
NewAny ==
    /\ op = "none"
    /\ \E e \in EVals, f \in FreqInputs, ts \in BOOLEAN, lin \in BOOLEAN, r \in RefVals :
           Construct(e, f, ts, lin, r)

\* The object exists: the constructor returned.
Constructed == op # "none" /\ ~(op = "__init__" /\ ret.outcome = "raised")

-----------------------------------------------------------------------------
(* state_count.zpe                                                          *)

\* Every method but BS_count leaves these as follows.
NoGrain ==
    /\ Egrain' = 0
    /\ UNCHANGED <<fields, args>>

\* self.hbar * self.sum / 2
zpe_value == Rat(hbar * sum, 2)

zpe ==
    /\ Constructed
    /\ op' = "zpe"
    /\ locals' = None
    /\ printed' = FALSE
    /\ ret' = Returned(zpe_value)
    /\ NoGrain

\* E of the counting methods: self.E, or self.E - self.zpe() unless ref is 'zpe'.
EffectiveE == IF ref = "zpe" THEN Int2Rat(E) ELSE RSub(Int2Rat(E), zpe_value)

-----------------------------------------------------------------------------
(* state_count.cl_count                                                     *)

cl_count ==
    LET e    == EffectiveE
        s    == n_osc
        prod == SeqProd(vibs)
        summ == RDiv(RPow(e, s), Int2Rat(prod * Factorial(s)))
        dens == RDiv(RMul(summ, Int2Rat(s)), e)
    IN /\ Constructed
       /\ op' = "cl_count"
       /\ locals' = [E |-> e, s |-> s, prod |-> prod]
       /\ printed' = FALSE
       /\ ret' = Returned(<<summ, dens>>)
       /\ NoGrain

-----------------------------------------------------------------------------
(* state_count.MR_count                                                     *)

MR_count ==
    LET e    == EffectiveE
        s    == n_osc
        prod == SeqProd(vibs)
        base == RAdd(e, zpe_value)
        summ == RDiv(RPow(base, s), Int2Rat(prod * Factorial(s)))
        dens == RMul(summ, RDiv(Int2Rat(s), base))
    IN /\ Constructed
       /\ op' = "MR_count"
       /\ locals' = [E |-> e, s |-> s, prod |-> prod]
       /\ printed' = FALSE
       /\ ret' = Returned(<<summ, dens>>)
       /\ NoGrain

-----------------------------------------------------------------------------
(* state_count.WR_count                                                     *)

\* A plausible slip: the lower limit the comment on the else branch names, 0.1.
WRBranchComment(eprime) ==
    IF RLess(Rat(1, 10), eprime) /\ RLess(eprime, Int2Rat(1)) THEN "rational"
    ELSE IF RLeq(Int2Rat(1), eprime) THEN "exponential"
    ELSE "else"

\* The branch the if / elif / else on eprime takes.
WRBranch(eprime) ==
    IF RLess(Rat(1, 100), eprime) /\ RLess(eprime, Int2Rat(1)) THEN "rational"
    ELSE IF RLeq(Int2Rat(1), eprime) THEN "exponential"
    ELSE "else"

\* A value of one of the two regular branches, which needs exp or a root: the
\* expression `name` of the branch at these operands.
Term(name, branch, eprime, b, e, s, denom) ==
    [term |-> name, branch |-> branch, eprime |-> eprime, b |-> b, E |-> e, s |-> s,
     denom |-> denom, zpe |-> zpe_value]

WR_count ==
    LET e      == EffectiveE
        s      == n_osc
        denom  == Int2Rat(SeqProd(vibs) * Factorial(s))
        vratio == RDiv(RDiv(Int2Rat(SeqSumSq(vibs)), Int2Rat(s)),
                       RPow(RDiv(Int2Rat(sum), Int2Rat(s)), 2))
        b      == RDiv(RMul(vratio, Int2Rat(s - 1)), Int2Rat(s))
        eprime == RDiv(e, zpe_value)
        branch == WRBranch(eprime)
        \* the else branch: w = 0, dwde = 0
        w      == Int2Rat(0)
        dwde   == Int2Rat(0)
        a      == RSub(Int2Rat(1), RMul(b, w))
        base   == RAdd(e, RMul(a, zpe_value))
        summ   == RDiv(RPow(base, s), denom)
        deriv  == RSub(Int2Rat(1), RMul(b, dwde))
        dens   == RMul(summ, RMul(RDiv(Int2Rat(s), base), deriv))
    IN /\ Constructed
       /\ op' = "WR_count"
       /\ printed' = (branch = "else")
       /\ IF branch = "else"
          THEN /\ locals' = [E |-> e, s |-> s, b |-> b, eprime |-> eprime, branch |-> branch,
                             w |-> w, dwde |-> dwde]
               /\ ret' = Returned(<<summ, dens>>)
          ELSE /\ locals' = [E |-> e, s |-> s, b |-> b, eprime |-> eprime, branch |-> branch,
                             w |-> Term("w", branch, eprime, b, e, s, denom),
                             dwde |-> Term("dwde", branch, eprime, b, e, s, denom)]
               /\ ret' = Returned(<<Term("summ", branch, eprime, b, e, s, denom),
                                    Term("dens", branch, eprime, b, e, s, denom)>>)
       /\ NoGrain

-----------------------------------------------------------------------------
(* state_count.BS_count                                                     *)

\* M = len(T) - 1
M == TableLen - 1

\* T = np.zeros(len); T[0] = 1
FreshTable == [i \in 0..M |-> IF i = 0 THEN 1 ELSE 0]

\* Python's index i of an array of TableLen cells: a negative one counts from the end.
InRange(i) == -TableLen <= i /\ i < TableLen

PyIndex(i) == IF i < 0 THEN i + TableLen ELSE i

\* T[i] += T[j] on t = [err, T]; an index out of range raises IndexError.
AddAt(t, i, j) ==
    IF t.err THEN t
    ELSE IF ~InRange(i) \/ ~InRange(j) THEN [err |-> TRUE, T |-> t.T]
    ELSE [err |-> FALSE, T |-> [t.T EXCEPT ![PyIndex(i)] = @ + t.T[PyIndex(j)]]]

\* for i in range(from, M): T[i] += T[i-r]
RECURSIVE Loop(_, _, _)
Loop(t, r, i) ==
    IF t.err \/ i >= M THEN t ELSE Loop(AddAt(t, i, i - r), r, i + 1)

\* The body of `for r in R`.
ModePass(t, r) ==
    AddAt(Loop(AddAt(AddAt(t, r, 0), r + 1, 1), r, r + 1), M, M - r)

RECURSIVE AllModes(_, _)
AllModes(t, R) ==
    IF R = <<>> \/ t.err THEN t ELSE AllModes(ModePass(t, Head(R)), Tail(R))

\* R = [int(round(v/Egrain)) for v in self.vibs]
GrainCounts(v, g) == [k \in 1..Len(v) |-> Round(Rat(v[k], g))]

\* A plausible slip: the table kept on the object, so that a call goes on from the
\* table the previous BS_count call left.
TableKept == IF op = "BS_count" THEN locals.T ELSE FreshTable

\* The table the method starts from: T is a local, made anew by every call.
TableAtEntry == FreshTable

\* np.sum(T[:RM]): the slice stops at RM, counted from the end when negative,
\* and is cut to the array.
RECURSIVE SumBelow(_, _)
SumBelow(T, stop) == IF stop <= 0 THEN 0 ELSE T[stop - 1] + SumBelow(T, stop - 1)

SliceStop(RM) ==
    IF RM < 0 THEN (IF RM + TableLen < 0 THEN 0 ELSE RM + TableLen)
    ELSE IF RM > TableLen THEN TableLen ELSE RM

\* int(np.sum(T[:RM]))
Summ(T, RM) == SumBelow(T, SliceStop(RM))

\* A plausible slip: the index of the density cell cut to the array, as the slice is.
DensityClipped(T, RM, g) ==
    Returned(Rat(T[IF RM - 1 >= TableLen THEN TableLen - 1
                   ELSE IF RM - 1 < -TableLen THEN 0 ELSE PyIndex(RM - 1)], g))

\* T[RM-1] / Egrain
Density(T, RM, g) ==
    IF InRange(RM - 1) THEN Returned(Rat(T[PyIndex(RM - 1)], g)) ELSE Raised("IndexError")

BS_count(g) ==
    LET e  == EffectiveE
        R  == GrainCounts(vibs, g)
        t  == AllModes([err |-> FALSE, T |-> TableAtEntry], R)
        RM == Round(RDiv(e, Int2Rat(g)))
    IN /\ Constructed
       /\ op' = "BS_count"
       /\ Egrain' = g
       /\ printed' = FALSE
       /\ UNCHANGED <<fields, args>>
       /\ IF t.err
          THEN /\ locals' = [E |-> e, R |-> R, T |-> t.T]
               /\ ret' = Raised("IndexError")
          ELSE /\ locals' = [E |-> e, R |-> R, T |-> t.T, RM |-> RM]
               /\ LET summ == Summ(t.T, RM)
                      dens == Density(t.T, RM, g)
                  IN IF dens.outcome = "raised"
                     THEN ret' = dens
                     ELSE ret' = Returned(<<summ, dens.value>>)

Exact == \E g \in EgrainVals : BS_count(g)

-----------------------------------------------------------------------------

Next == New \/ zpe \/ cl_count \/ MR_count \/ WR_count \/ Exact

Spec == Init /\ [][Next]_vars

\* The constructor alone, on every frequency array, followed by zpe().
NextConstruct == NewAny \/ zpe

SpecConstruct == Init /\ [][NextConstruct]_vars

-----------------------------------------------------------------------------
(* Reference notions the properties are stated with.                        *)

\* BS_count ended, and every mode's pass ran to its end.
ModesProcessed == op = "BS_count" /\ "RM" \in DOMAIN locals

\* RM = int(round(E / Egrain)) of the last BS_count call.
RequestedGrains == Round(RDiv(locals.E, Int2Rat(Egrain)))

\* The number of tuples (n_1..n_s) of naturals with n_1*R[1] + ... + n_s*R[s] = m,
\* for grain counts R >= 1.
RECURSIVE Ways(_, _)
Ways(R, m) ==
    IF R = <<>> THEN (IF m = 0 THEN 1 ELSE 0)
    ELSE LET RECURSIVE Take(_)
             Take(n) == IF n * Head(R) > m THEN 0
                        ELSE Ways(Tail(R), m - n * Head(R)) + Take(n + 1)
         IN Take(0)

\* The canonical pass of a mode: T[i] += T[i - r] once for i = r .. capacity, ascending.
RECURSIVE CanonicalPass(_, _, _)
CanonicalPass(T, r, i) ==
    IF i > M THEN T ELSE CanonicalPass([T EXCEPT ![i] = @ + T[i - r]], r, i + 1)

RECURSIVE CanonicalTable(_, _)
CanonicalTable(T, R) ==
    IF R = <<>> THEN T ELSE CanonicalTable(CanonicalPass(T, Head(R), Head(R)), Tail(R))

\* The j-th smallest entry (j >= 1) of the array f, by rank.
Ranked(f, j) ==
    CHOOSE v \in { f[p] : p \in DOMAIN f } :
        /\ Cardinality({ p \in DOMAIN f : f[p] < v }) < j
        /\ j <= Cardinality({ p \in DOMAIN f : f[p] <= v })

\* The number of modes construction discards.
Discarded == (IF args.TS THEN 1 ELSE 0) + (IF args.linear THEN 5 ELSE 6)

\* Twice the effective energy of the counting methods, as an integer.
TwiceEffectiveE == IF ref = "zpe" THEN 2 * E ELSE 2 * E - sum

\* The branch of WR_count for eprime = E / zpe = TwiceEffectiveE / sum, for sum >= 0
\* (a zero zpe makes eprime +inf, -inf or nan).
ExpectedBranch ==
    IF sum = 0 THEN (IF TwiceEffectiveE > 0 THEN "exponential" ELSE "else")
    ELSE IF TwiceEffectiveE >= sum THEN "exponential"
    ELSE IF 100 * TwiceEffectiveE > sum THEN "rational"
    ELSE "else"

-----------------------------------------------------------------------------
(* The properties.                                                          *)

\* C1: when every grain count is >= 1 and BS_count has processed all modes, each cell
\* T[m], 0 <= m <= capacity, is the number of tuples of naturals (n_1..n_s) with
\* n_1*r_1 + ... + n_s*r_s = m; for grain counts [1, 2] and RM = 5 the call returns
\* the sum 9 and the density 3/Egrain.
C1_TableCountsTuples ==
    (ModesProcessed /\ \A k \in DOMAIN locals.R : locals.R[k] >= 1)
        => /\ \A m \in 0..M : locals.T[m] = Ways(locals.R, m)
           /\ (locals.R = <<1, 2>> /\ locals.RM = 5)
                 => ret = Returned(<<9, Rat(3, Egrain)>>)

\* C2: BS_count called with effective energy E = 0 returns the sum 1 and the density
\* 1/Egrain.
C2_GroundStateOnly ==
    (op = "BS_count" /\ locals.E = Int2Rat(0))
        => ret = Returned(<<1, Rat(1, Egrain)>>)

C4_DerivedFields ==
    Constructed
        => /\ Len(vibs) = (IF Len(args.freqs) > Discarded
                           THEN Len(args.freqs) - Discarded ELSE 0)
           /\ \A i \in 1..Len(vibs) : vibs[i] = Ranked(args.freqs, Discarded + i)
           /\ n_osc = Len(vibs)
           /\ sum = SeqSum(vibs)
           /\ op = "zpe" => /\ ret.outcome = "returned"
                            /\ 2 * ret.value.n = sum * ret.value.d

\* C4, witness: zpe() was called on a linear transition state built from an array that
\* was not in ascending order, of which one mode of frequency 1 was kept, and
\* returned 1/2.
C4_Witness ==
    /\ op = "zpe"
    /\ args.TS
    /\ args.linear
    /\ \E i \in 1..(Len(args.freqs) - 1) : args.freqs[i] > args.freqs[i + 1]
    /\ vibs = <<1>>
    /\ ret = Returned([n |-> 1, d |-> 2])

\* C5: a construction that does not fail yields n_osc >= 1.
C5_AtLeastOneOscillator == Constructed => n_osc >= 1

\* C6: when a mode has the grain count 0, BS_count either raises or leaves the table
\* as if that mode had been skipped; it never applies the update with r = 0.
C6_ZeroGrainRejected ==
    (op = "BS_count" /\ \E k \in DOMAIN locals.R : locals.R[k] = 0)
        => \/ ret.outcome = "raised"
           \/ locals.T = AllModes([err |-> FALSE, T |-> FreshTable],
                                  SelectSeq(locals.R, LAMBDA r : r # 0)).T

\* C7: cl_count takes E = self.E when ref is 'zpe' and self.E - zpe otherwise, and
\* ends in an error instead of returning a pair whenever E <= 0.
C7_EnergyBelowThreshold ==
    op = "cl_count"
        => /\ 2 * locals.E.n = TwiceEffectiveE * locals.E.d
           /\ TwiceEffectiveE <= 0 => ret.outcome = "raised"

C9_Frame ==
    [][Constructed
         => /\ fields' = fields
            /\ (op' = op /\ Egrain' = Egrain) => (ret' = ret /\ locals' = locals)]_vars

\* C9, witness: a BS_count call returned from a table with a filled cell above T[0].
C9_Witness ==
    /\ ModesProcessed
    /\ ret.outcome = "returned"
    /\ \E m \in 1..M : locals.T[m] > 0

\* C10: for grain counts r with 1 <= r and r + 1 <= capacity, the passes of BS_count
\* leave the table as the canonical passes (T[i] += T[i - r] once for each i from r
\* up to capacity, ascending) do.
C10_PassIsCanonical ==
    (ModesProcessed /\ \A k \in DOMAIN locals.R : 1 <= locals.R[k] /\ locals.R[k] + 1 <= M)
        => locals.T = CanonicalTable(FreshTable, locals.R)
====
